---- MODULE Spec2Model ----
(***************************************************************************)
(* Model of library/lcd_comm_rev_a.py: the revision A LCD protocol driver. *)
(* Callers run the public operations of one LcdCommRevA instance; every    *)
(* statement that reads or writes shared state (self.orientation,          *)
(* self.last_bitmap_time, self.com_mutex, the serial transport) is one     *)
(* step of the calling thread, labelled by its source line.                *)
(* Time is an integer clock; one tick is half of inter_bitmap_delay.       *)
(***************************************************************************)
EXTENDS Integers, Sequences, FiniteSets, TLC

(* ------------------------------ bounds -------------------------------- *)
MaxCalls == 2
MaxTime == 4
DisplayWidth == 1
DisplayHeight == 8
MaxLevelSlack == 1
MainImageHeight == 5

\* the coordinates of a frame are 10-bit: x >> 2 must fit a byte
CoordBits == 10

(* ------------------------- program constants -------------------------- *)
RESET == 101
CLEAR == 102
TO_BLACK == 103
SCREEN_OFF == 108
SCREEN_ON == 109
SET_BRIGHTNESS == 110
SET_ORIENTATION == 121
DISPLAY_BITMAP == 197

Command == {RESET, CLEAR, TO_BLACK, SCREEN_OFF, SCREEN_ON, SET_BRIGHTNESS,
            SET_ORIENTATION, DISPLAY_BITMAP}

\* library/lcd_comm.py (Orientation enum, base-class fields)
PORTRAIT == 0
REVERSE_PORTRAIT == 1
LANDSCAPE == 2
REVERSE_LANDSCAPE == 3

Orientation == {PORTRAIT, LANDSCAPE, REVERSE_PORTRAIT, REVERSE_LANDSCAPE}

\* self.inter_bitmap_delay, in clock ticks
inter_bitmap_delay == 2

\* line 22: the default arguments of __init__
display_width_default == 320
display_height_default == 480

\* time.sleep(1) of Reset, in clock ticks (shortened: the clock is capped)
ResetSettle == 1

Callers == {"c1", "c2"}
Free == "free"

(* --------------------------- pure helpers ----------------------------- *)
Last(s) == s[Len(s)]

\* int >> n and int & (2^n - 1) of Python, on any integer
Shr(v, n) == v \div (2 ^ n)
Shl(v, n) == v * (2 ^ n)
LowBits(v, n) == v % (2 ^ n)

\* a packing that shifts the low bits of x one place short
SendCommandBytes_BadShift(cmd, x, y, ex, ey) ==
    << Shr(x, 2),
       Shl(LowBits(x, 2), 5) + Shr(y, 4),
       Shl(LowBits(y, 4), 4) + Shr(ex, 6),
       Shl(LowBits(ex, 6), 2) + Shr(ey, 8),
       LowBits(ey, 8),
       cmd >>

\* lines 47-53: the 6-byte buffer of SendCommand
SendCommandBytes(cmd, x, y, ex, ey) ==
    << Shr(x, 2),
       Shl(LowBits(x, 2), 6) + Shr(y, 4),
       Shl(LowBits(y, 4), 4) + Shr(ex, 6),
       Shl(LowBits(ex, 6), 2) + Shr(ey, 8),
       LowBits(ey, 8),
       cmd >>

\* a bytearray item assignment raises ValueError outside range(256)
ValidBytes(b) == \A i \in 1..Len(b) : b[i] \in 0..255

\* a buffer that carries the height where the width belongs
SetOrientationBytes_Swapped(o, width, height) ==
    SendCommandBytes(SET_ORIENTATION, 0, 0, 0, 0)
        \o << o + 100, Shr(height, 8), LowBits(height, 8), Shr(width, 8), LowBits(width, 8) >>

\* lines 111-122: the 11-byte buffer of SetOrientation
SetOrientationBytes(o, width, height) ==
    SendCommandBytes(SET_ORIENTATION, 0, 0, 0, 0)
        \o << o + 100, Shr(width, 8), LowBits(width, 8), Shr(height, 8), LowBits(height, 8) >>

\* a SendCommand that forgets the settle time
SendCommandDelay_NoSettle(last, t) == last - t

\* line 43: delay = (last_bitmap_time + inter_bitmap_delay) - time.time()
SendCommandDelay(last, t) == (last + inter_bitmap_delay) - t

\* a conversion that rounds the scaled level to the nearest integer
BrightnessAbsolute_Rounded(level) == 255 - ((255 * level + 50) \div 100)

\* a conversion that forgets to invert the scale
BrightnessAbsolute_NotInverted(level) == (255 * level) \div 100

\* line 93: int(255 - ((level / 100) * 255)); int() truncates toward zero.
\* The float result equals the exact quotient's truncation for -100..200.
BrightnessAbsolute(level) ==
    LET num == 25500 - 255 * level
    IN  IF num >= 0 THEN num \div 100 ELSE -((-num) \div 100)

\* line 78: self.SetOrientation() with the default argument of line 103
ClearRestoreOrientation(before) == PORTRAIT


(* ------------------------------ images -------------------------------- *)
\* the colours a source pixel can have in the model
Palette == << <<255, 0, 0>>, <<0, 255, 0>>, <<0, 0, 255>>, <<255, 255, 255>>, <<8, 4, 8>> >>

\* a PIL image: size = (width, height); its pixels are a pattern over the
\* palette, or all of one colour (tint) when one is given
MkImage(iw, ih, seed) == [size |-> <<iw, ih>>, seed |-> seed, tint |-> << >>]
TintedImage(iw, ih, tint) == [size |-> <<iw, ih>>, seed |-> 0, tint |-> tint]

\* pix[w, h] raises IndexError outside the image
InImage(image, w, h) == w >= 0 /\ w < image.size[1] /\ h >= 0 /\ h < image.size[2]
Pix(image, w, h) ==
    IF image.tint # << >> THEN image.tint
    ELSE Palette[((image.seed + w + h * image.size[1]) % Len(Palette)) + 1]

\* a conversion that keeps five bits of green instead of six
Rgb565_Green5(p) == Shl(Shr(p[1], 3), 11) + Shl(Shr(p[2], 3), 5) + Shr(p[3], 3)

\* lines 161-165: RGB888 to RGB565
Rgb565(p) == Shl(Shr(p[1], 3), 11) + Shl(Shr(p[2], 2), 5) + Shr(p[3], 3)

\* line 166: struct.pack('H', rgb), native byte order
PackH(rgb, order) ==
    IF order = "little" THEN << LowBits(rgb, 8), Shr(rgb, 8) >>
                        ELSE << Shr(rgb, 8), LowBits(rgb, 8) >>

(* ------------------------------- calls -------------------------------- *)
MkCall(name, level, o, image, x, y, iw, ih) ==
    [name |-> name, level |-> level, orientation |-> o, image |-> image,
     x |-> x, y |-> y, image_width |-> iw, image_height |-> ih,
     cmd |-> 0, ex |-> 0, ey |-> 0]

SimpleCall(name) == MkCall(name, 0, PORTRAIT, MkImage(0, 0, 0), 0, 0, 0, 0)
BrightnessCall(level) == MkCall("SetBrightness", level, PORTRAIT, MkImage(0, 0, 0), 0, 0, 0, 0)
OrientationCall(o) == MkCall("SetOrientation", 0, o, MkImage(0, 0, 0), 0, 0, 0, 0)
BitmapCall(image, x, y, iw, ih) == MkCall("DisplayPILImage", 0, PORTRAIT, image, x, y, iw, ih)

\* SendCommand called on its own: the frame encoder with arbitrary arguments
SendCommandCall(cmd, x, y, ex, ey) ==
    [MkCall("SendCommand", 0, PORTRAIT, MkImage(0, 0, 0), x, y, 0, 0)
        EXCEPT !.cmd = cmd, !.ex = ex, !.ey = ey]

\* caller t has not called anything yet
NoCall(t) == SimpleCall("none")

(* ------------------------------- state -------------------------------- *)
VARIABLES
    orientation,        \* self.orientation
    last_bitmap_time,   \* self.last_bitmap_time
    now,                \* time.time()
    com_mutex,          \* self.com_mutex: its holder, or Free
    lcd_serial,         \* self.lcd_serial: the handle writes go to
    open_handles,       \* the transport handles that are open
    wire,               \* every write to the transport, in order
    byteorder,          \* the host's native byte order
    display_width,      \* self.display_width
    display_height,     \* self.display_height
    pc,                 \* per caller: the source line it is at
    call,               \* per caller: the public operation it runs
    loc,                \* per caller: the local variables of its frames
    snap,               \* per caller: the driver state when its call began
    result,             \* per caller: how its last call ended
    ncalls              \* per caller: calls begun so far

vars == << orientation, last_bitmap_time, now, com_mutex, lcd_serial, open_handles,
           wire, byteorder, display_width, display_height, pc, call, loc, snap, result, ncalls >>

\* get_width()/get_height() of the base class: orientation-aware getters
get_width(o) == IF o \in {PORTRAIT, REVERSE_PORTRAIT} THEN display_width ELSE display_height
get_height(o) == IF o \in {PORTRAIT, REVERSE_PORTRAIT} THEN display_height ELSE display_width

\* the local variables of caller t before a call
LocInit(t) ==
    [ret |-> "", scret |-> "", so_arg |-> PORTRAIT, width |-> 0, height |-> 0,
     cmd |-> 0, x |-> 0, y |-> 0, ex |-> 0, ey |-> 0, wakeAt |-> 0,
     level_absolute |-> 0, image_width |-> 0, image_height |-> 0,
     h |-> 0, w |-> 0, line |-> << >>]

SnapOf == [orientation |-> orientation, last_bitmap_time |-> last_bitmap_time,
           wirelen |-> Len(wire), lcd_serial |-> lcd_serial]

\* __init__: base-class fields, then openSerial(); the clock is past the
\* first inter_bitmap_delay, as time.time() always is
InitWith(orientations, orders, displays) ==
    /\ orientation \in orientations
    /\ \E d \in displays : display_width = d[1] /\ display_height = d[2]
    /\ last_bitmap_time = 0
    /\ now = inter_bitmap_delay
    /\ com_mutex = Free
    /\ lcd_serial = 1
    /\ open_handles = {1}
    /\ wire = << >>
    /\ byteorder \in orders
    /\ pc = [t \in Callers |-> "idle"]
    /\ call = [t \in Callers |-> NoCall(t)]
    /\ loc = [t \in Callers |-> LocInit(t)]
    /\ snap = [t \in Callers |-> SnapOf]
    /\ result = [t \in Callers |-> "none"]
    /\ ncalls = [t \in Callers |-> 0]

\* line 22: display_width=320, display_height=480 by default; the pixel
\* loops are explored on a display of a few pixels
SmallDisplay == {<< DisplayWidth, DisplayHeight >>}
DefaultDisplay == {<< display_width_default, display_height_default >>}

\* the byte orders a host can have
ByteOrders == {"little", "big"}

\* the base class starts in PORTRAIT; the host of the concurrent and the
\* sequential specification is little-endian
Init == InitWith({PORTRAIT}, {"little"}, SmallDisplay)

\* the sequential specification also runs on the default display
InitSeq == InitWith({PORTRAIT}, {"little"}, SmallDisplay \cup DefaultDisplay)

\* the same on a host of either byte order
InitAnyHost == InitWith({PORTRAIT}, ByteOrders, SmallDisplay)

(* ------------------------- shared step pieces ------------------------- *)
\* one write to the transport by caller t
Written(t, kind, bytes) ==
    Append(wire, [who |-> t, n |-> ncalls[t], kind |-> kind, bytes |-> bytes])

\* the call of t returns or raises
Finish(t, res) ==
    /\ pc' = [pc EXCEPT ![t] = "done"]
    /\ result' = [result EXCEPT ![t] = res]
    /\ loc' = [loc EXCEPT ![t] = LocInit(t)]

\* `with self.com_mutex:` entered by t
Acquire(t) ==
    /\ com_mutex = Free
    /\ com_mutex' = t

\* where each public operation starts
EntryPc(name) ==
    CASE name = "Reset" -> "rs65"
      [] name = "Clear" -> "cl75"
      [] name = "ScreenOff" -> "soff81"
      [] name = "ScreenOn" -> "son85"
      [] name = "SetBrightness" -> "sb89"
      [] name = "SetOrientation" -> "so104"
      [] name = "DisplayPILImage" -> "dp140"
      [] name = "SendCommand" -> "sc43"

\* calls begun so far, by all callers
TotalCalls == ncalls["c1"] + ncalls["c2"]

\* the frame of call c is set up for caller t
Begin(t, c) ==
    /\ pc' = [pc EXCEPT ![t] = EntryPc(c.name)]
    /\ call' = [call EXCEPT ![t] = c]
    /\ loc' = [loc EXCEPT ![t] = [LocInit(t) EXCEPT !.so_arg = c.orientation, !.ret = "done",
                                              !.cmd = c.cmd, !.x = c.x, !.y = c.y,
                                              !.ex = c.ex, !.ey = c.ey, !.scret = "done"]]
    /\ ncalls' = [ncalls EXCEPT ![t] = @ + 1]
    /\ result' = [result EXCEPT ![t] = "none"]
    /\ snap' = [snap EXCEPT ![t] = SnapOf]
    /\ UNCHANGED << orientation, last_bitmap_time, now, com_mutex, lcd_serial,
                    open_handles, wire, byteorder, display_width, display_height >>

\* a caller invokes one of the operations in calls; at most `budget` calls
\* are made in all
StartCall(t, calls, budget) ==
    /\ pc[t] \in {"idle", "done"}
    /\ TotalCalls < budget
    /\ \E c \in calls : Begin(t, c)

\* a caller invokes SendCommand itself, once, with an opcode of cmds and
\* coordinates of coords
StartSendCommand(t, cmds, coords) ==
    /\ pc[t] = "idle"
    /\ TotalCalls = 0
    /\ \E cmd \in cmds : \E x, y, ex, ey \in coords :
           Begin(t, SendCommandCall(cmd, x, y, ex, ey))

\* time passes
Tick ==
    /\ now < MaxTime
    /\ now' = now + 1
    /\ UNCHANGED << orientation, last_bitmap_time, com_mutex, lcd_serial, open_handles,
                    wire, byteorder, display_width, display_height, pc, call, loc, snap, result, ncalls >>

(* ---------------------------- SendCommand ----------------------------- *)
\* the caller's frame enters SendCommand(cmd, x, y, ex, ey), to continue at scret
EnterSendCommand(t, cmd, x, y, ex, ey, scret) ==
    /\ loc' = [loc EXCEPT ![t] = [@ EXCEPT !.cmd = cmd, !.x = x, !.y = y, !.ex = ex,
                                            !.ey = ey, !.scret = scret]]
    /\ pc' = [pc EXCEPT ![t] = "sc43"]

\* lines 43-45: read the clock, decide to sleep
SendCommand_43(t) ==
    /\ pc[t] = "sc43"
    /\ LET delay == SendCommandDelay(last_bitmap_time, now)
       IN  IF delay > 0
           THEN /\ loc' = [loc EXCEPT ![t].wakeAt = now + delay]
                /\ pc' = [pc EXCEPT ![t] = "sc45"]
           ELSE /\ pc' = [pc EXCEPT ![t] = "sc47"]
                /\ UNCHANGED loc
    /\ UNCHANGED << orientation, last_bitmap_time, now, com_mutex, lcd_serial, open_handles,
                    wire, byteorder, display_width, display_height, call, snap, result, ncalls >>

\* line 45: time.sleep(delay) returns
SendCommand_45(t) ==
    /\ pc[t] = "sc45"
    /\ now >= loc[t].wakeAt
    /\ pc' = [pc EXCEPT ![t] = "sc47"]
    /\ UNCHANGED << orientation, last_bitmap_time, now, com_mutex, lcd_serial, open_handles,
                    wire, byteorder, display_width, display_height, call, loc, snap, result, ncalls >>

\* lines 47-56: build the frame and write it; a byte outside range(256)
\* raises ValueError, which leaves the caller's `with` block
SendCommand_47(t) ==
    /\ pc[t] = "sc47"
    /\ LET bytes == SendCommandBytes(loc[t].cmd, loc[t].x, loc[t].y, loc[t].ex, loc[t].ey)
       IN  IF ValidBytes(bytes)
           THEN /\ wire' = Written(t, "cmd", bytes)
                /\ IF loc[t].scret = "done"
                   THEN Finish(t, "ok")
                   ELSE /\ pc' = [pc EXCEPT ![t] = loc[t].scret]
                        /\ UNCHANGED << result, loc >>
                /\ UNCHANGED com_mutex
           ELSE /\ com_mutex' = IF com_mutex = t THEN Free ELSE com_mutex
                /\ Finish(t, "ValueError")
                /\ UNCHANGED wire
    /\ UNCHANGED << orientation, last_bitmap_time, now, lcd_serial, open_handles,
                    byteorder, display_width, display_height, call, snap, ncalls >>

\* the end of a `with self.com_mutex:` block whose body was one SendCommand
WithExit(t) ==
    /\ pc[t] = "exit"
    /\ com_mutex' = Free
    /\ Finish(t, "ok")
    /\ UNCHANGED << orientation, last_bitmap_time, now, lcd_serial, open_handles,
                    wire, byteorder, display_width, display_height, call, snap, ncalls >>


(* ------------------------------- Reset -------------------------------- *)
\* lines 65-66
Reset_65(t) ==
    /\ pc[t] = "rs65"
    /\ Acquire(t)
    /\ EnterSendCommand(t, RESET, 0, 0, 0, 0, "rs71")
    /\ UNCHANGED << orientation, last_bitmap_time, now, lcd_serial, open_handles,
                    wire, byteorder, display_width, display_height, call, snap, result, ncalls >>

\* a Reset that sleeps outside the lock
Reset_71_Unlocked(t) ==
    /\ pc[t] = "rs71"
    /\ loc' = [loc EXCEPT ![t].wakeAt = now + ResetSettle]
    /\ pc' = [pc EXCEPT ![t] = "rs72"]
    /\ com_mutex' = Free
    /\ UNCHANGED << orientation, last_bitmap_time, now, lcd_serial, open_handles,
                    wire, byteorder, display_width, display_height, call, snap, result, ncalls >>

\* line 71: time.sleep(1) begins
Reset_71(t) ==
    /\ pc[t] = "rs71"
    /\ loc' = [loc EXCEPT ![t].wakeAt = now + ResetSettle]
    /\ pc' = [pc EXCEPT ![t] = "rs72"]
    /\ UNCHANGED << orientation, last_bitmap_time, now, com_mutex, lcd_serial, open_handles,
                    wire, byteorder, display_width, display_height, call, snap, result, ncalls >>

\* openSerial() of the base class: a new handle replaces self.lcd_serial
openSerial(handles) == handles \cup {Cardinality(handles) + 1}

\* line 72, after the sleep: openSerial() without closing the old handle
Reset_72(t) ==
    /\ pc[t] = "rs72"
    /\ now >= loc[t].wakeAt
    /\ open_handles' = openSerial(open_handles)
    /\ lcd_serial' = Cardinality(open_handles) + 1
    /\ com_mutex' = Free
    /\ Finish(t, "ok")
    /\ UNCHANGED << orientation, last_bitmap_time, now, wire, byteorder, display_width, display_height, call, snap, ncalls >>

(* --------------------------- SetOrientation --------------------------- *)
\* line 104
SetOrientation_104(t) ==
    /\ pc[t] = "so104"
    /\ orientation' = loc[t].so_arg
    /\ pc' = [pc EXCEPT ![t] = "so105"]
    /\ UNCHANGED << last_bitmap_time, now, com_mutex, lcd_serial, open_handles,
                    wire, byteorder, display_width, display_height, call, loc, snap, result, ncalls >>

\* line 105
SetOrientation_105(t) ==
    /\ pc[t] = "so105"
    /\ loc' = [loc EXCEPT ![t].width = get_width(orientation)]
    /\ pc' = [pc EXCEPT ![t] = "so106"]
    /\ UNCHANGED << orientation, last_bitmap_time, now, com_mutex, lcd_serial, open_handles,
                    wire, byteorder, display_width, display_height, call, snap, result, ncalls >>

\* line 106
SetOrientation_106(t) ==
    /\ pc[t] = "so106"
    /\ loc' = [loc EXCEPT ![t].height = get_height(orientation)]
    /\ pc' = [pc EXCEPT ![t] = "so123"]
    /\ UNCHANGED << orientation, last_bitmap_time, now, com_mutex, lcd_serial, open_handles,
                    wire, byteorder, display_width, display_height, call, snap, result, ncalls >>

\* a SetOrientation that writes without taking the lock
SetOrientation_123_NoLock(t) ==
    /\ pc[t] = "so123"
    /\ pc' = [pc EXCEPT ![t] = "so124"]
    /\ UNCHANGED << orientation, last_bitmap_time, now, com_mutex, lcd_serial, open_handles,
                    wire, byteorder, display_width, display_height, call, loc, snap, result, ncalls >>

\* line 123
SetOrientation_123(t) ==
    /\ pc[t] = "so123"
    /\ Acquire(t)
    /\ pc' = [pc EXCEPT ![t] = "so124"]
    /\ UNCHANGED << orientation, last_bitmap_time, now, lcd_serial, open_handles,
                    wire, byteorder, display_width, display_height, call, loc, snap, result, ncalls >>

\* line 124: the write, straight to the transport, then the lock is released
\* and SetOrientation returns to its caller (Clear, or the public caller)
SetOrientation_124(t) ==
    /\ pc[t] = "so124"
    /\ wire' = Written(t, "orient",
                       SetOrientationBytes(loc[t].so_arg, loc[t].width, loc[t].height))
    /\ com_mutex' = Free
    /\ IF loc[t].ret = "done"
       THEN Finish(t, "ok")
       ELSE /\ pc' = [pc EXCEPT ![t] = loc[t].ret]
            /\ UNCHANGED << loc, result >>
    /\ UNCHANGED << orientation, last_bitmap_time, now, lcd_serial, open_handles,
                    byteorder, display_width, display_height, call, snap, ncalls >>

(* ------------------------------- Clear -------------------------------- *)
\* line 75: self.SetOrientation(Orientation.PORTRAIT)
Clear_75(t) ==
    /\ pc[t] = "cl75"
    /\ loc' = [loc EXCEPT ![t] = [@ EXCEPT !.so_arg = PORTRAIT, !.ret = "cl76"]]
    /\ pc' = [pc EXCEPT ![t] = "so104"]
    /\ UNCHANGED << orientation, last_bitmap_time, now, com_mutex, lcd_serial, open_handles,
                    wire, byteorder, display_width, display_height, call, snap, result, ncalls >>

\* lines 76-77
Clear_76(t) ==
    /\ pc[t] = "cl76"
    /\ Acquire(t)
    /\ EnterSendCommand(t, CLEAR, 0, 0, 0, 0, "cl77")
    /\ UNCHANGED << orientation, last_bitmap_time, now, lcd_serial, open_handles,
                    wire, byteorder, display_width, display_height, call, snap, result, ncalls >>

\* the end of the with block of lines 76-77
Clear_77(t) ==
    /\ pc[t] = "cl77"
    /\ com_mutex' = Free
    /\ pc' = [pc EXCEPT ![t] = "cl78"]
    /\ UNCHANGED << orientation, last_bitmap_time, now, lcd_serial, open_handles,
                    wire, byteorder, display_width, display_height, call, loc, snap, result, ncalls >>

\* line 78: self.SetOrientation()
Clear_78(t) ==
    /\ pc[t] = "cl78"
    /\ loc' = [loc EXCEPT ![t] = [@ EXCEPT !.so_arg = ClearRestoreOrientation(snap[t].orientation),
                                            !.ret = "done"]]
    /\ pc' = [pc EXCEPT ![t] = "so104"]
    /\ UNCHANGED << orientation, last_bitmap_time, now, com_mutex, lcd_serial, open_handles,
                    wire, byteorder, display_width, display_height, call, snap, result, ncalls >>

(* ----------------------- ScreenOff and ScreenOn ----------------------- *)
\* lines 81-82
ScreenOff_81(t) ==
    /\ pc[t] = "soff81"
    /\ Acquire(t)
    /\ EnterSendCommand(t, SCREEN_OFF, 0, 0, 0, 0, "exit")
    /\ UNCHANGED << orientation, last_bitmap_time, now, lcd_serial, open_handles,
                    wire, byteorder, display_width, display_height, call, snap, result, ncalls >>

\* lines 85-86
ScreenOn_85(t) ==
    /\ pc[t] = "son85"
    /\ Acquire(t)
    /\ EnterSendCommand(t, SCREEN_ON, 0, 0, 0, 0, "exit")
    /\ UNCHANGED << orientation, last_bitmap_time, now, lcd_serial, open_handles,
                    wire, byteorder, display_width, display_height, call, snap, result, ncalls >>

(* --------------------------- SetBrightness ---------------------------- *)
\* an assert that misses the lower bound
BrightnessLevelOk_NoLower(level) == level <= 100

\* line 89: assert 0 <= level <= 100
BrightnessLevelOk(level) == 0 <= level /\ level <= 100

\* lines 89-93
SetBrightness_89(t) ==
    /\ pc[t] = "sb89"
    /\ IF BrightnessLevelOk(call[t].level)
       THEN /\ loc' = [loc EXCEPT ![t].level_absolute = BrightnessAbsolute(call[t].level)]
            /\ pc' = [pc EXCEPT ![t] = "sb96"]
            /\ UNCHANGED result
       ELSE Finish(t, "AssertionError")
    /\ UNCHANGED << orientation, last_bitmap_time, now, com_mutex, lcd_serial, open_handles,
                    wire, byteorder, display_width, display_height, call, snap, ncalls >>

\* lines 96-97
SetBrightness_96(t) ==
    /\ pc[t] = "sb96"
    /\ Acquire(t)
    /\ EnterSendCommand(t, SET_BRIGHTNESS, loc[t].level_absolute, 0, 0, 0, "exit")
    /\ UNCHANGED << orientation, last_bitmap_time, now, lcd_serial, open_handles,
                    wire, byteorder, display_width, display_height, call, snap, result, ncalls >>


(* -------------------------- DisplayPILImage --------------------------- *)
\* lines 134-137: a height/width of 0 means "not provided"
DefaultSize(given, native) == IF given = 0 THEN native ELSE given

\* a clamp that never applies
ClampSize_Never(current, native, display) == current

\* lines 140-143: clamp when the image (not the argument) exceeds the display
ClampSize(current, native, display) == IF native > display THEN display ELSE current

\* lines 134-141
DisplayPILImage_140(t) ==
    /\ pc[t] = "dp140"
    /\ LET image == call[t].image
           image_height == DefaultSize(call[t].image_height, image.size[2])
           image_width == DefaultSize(call[t].image_width, image.size[1])
       IN  loc' = [loc EXCEPT ![t] = [@ EXCEPT
                      !.image_height = ClampSize(image_height, image.size[2], get_height(orientation)),
                      !.image_width = image_width]]
    /\ pc' = [pc EXCEPT ![t] = "dp142"]
    /\ UNCHANGED << orientation, last_bitmap_time, now, com_mutex, lcd_serial, open_handles,
                    wire, byteorder, display_width, display_height, call, snap, result, ncalls >>

\* lines 142-143
DisplayPILImage_142(t) ==
    /\ pc[t] = "dp142"
    /\ loc' = [loc EXCEPT ![t].image_width =
                  ClampSize(@, call[t].image.size[1], get_width(orientation))]
    /\ pc' = [pc EXCEPT ![t] = "dp145"]
    /\ UNCHANGED << orientation, last_bitmap_time, now, com_mutex, lcd_serial, open_handles,
                    wire, byteorder, display_width, display_height, call, snap, result, ncalls >>

\* line 145: assert x <= self.get_width()
DisplayPILImage_145(t) ==
    /\ pc[t] = "dp145"
    /\ IF call[t].x <= get_width(orientation)
       THEN /\ pc' = [pc EXCEPT ![t] = "dp146"]
            /\ UNCHANGED << loc, result >>
       ELSE Finish(t, "AssertionError")
    /\ UNCHANGED << orientation, last_bitmap_time, now, com_mutex, lcd_serial, open_handles,
                    wire, byteorder, display_width, display_height, call, snap, ncalls >>

\* asserts that check the height only
SizeOk_HeightOnly(image_width, image_height) == image_height > 0

\* lines 147-148: the asserts on the effective size
SizeOk(image_width, image_height) == image_height > 0 /\ image_width > 0

\* lines 146-148
DisplayPILImage_146(t) ==
    /\ pc[t] = "dp146"
    /\ IF call[t].y <= get_height(orientation) /\ SizeOk(loc[t].image_width, loc[t].image_height)
       THEN /\ pc' = [pc EXCEPT ![t] = "dp153"]
            /\ UNCHANGED << loc, result >>
       ELSE Finish(t, "AssertionError")
    /\ UNCHANGED << orientation, last_bitmap_time, now, com_mutex, lcd_serial, open_handles,
                    wire, byteorder, display_width, display_height, call, snap, ncalls >>

\* lines 150-154: the corners, the lock, the header command
DisplayPILImage_153(t) ==
    /\ pc[t] = "dp153"
    /\ Acquire(t)
    /\ EnterSendCommand(t, DISPLAY_BITMAP, call[t].x, call[t].y,
                        call[t].x + loc[t].image_width - 1,
                        call[t].y + loc[t].image_height - 1, "dp159")
    /\ UNCHANGED << orientation, last_bitmap_time, now, lcd_serial, open_handles,
                    wire, byteorder, display_width, display_height, call, snap, result, ncalls >>

\* a flush that waits for one pixel more
FlushDue_Late(len, width) == len > width * 8

\* line 169: if len(line) >= self.get_width() * 8
FlushDue(len, width) == len >= width * 8

\* lines 159-171: one iteration of the pixel loop, at (loc.w, loc.h)
DisplayPILImage_161(t) ==
    /\ pc[t] = "dp159"
    /\ LET w == loc[t].w
           h == loc[t].h
           image == call[t].image
           line == loc[t].line \o PackH(Rgb565(Pix(image, w, h)), byteorder)
           flush == FlushDue(Len(line), get_width(orientation))
           lastw == w + 1 = loc[t].image_width
           lasth == h + 1 = loc[t].image_height
       IN  IF InImage(image, w, h)
           THEN /\ wire' = IF flush THEN Written(t, "data", line) ELSE wire
                /\ loc' = [loc EXCEPT ![t] = [@ EXCEPT
                              !.line = IF flush THEN << >> ELSE line,
                              !.w = IF lastw THEN 0 ELSE w + 1,
                              !.h = IF lastw THEN h + 1 ELSE h]]
                /\ pc' = [pc EXCEPT ![t] = IF lastw /\ lasth THEN "dp174" ELSE "dp159"]
                /\ UNCHANGED << com_mutex, result >>
           ELSE /\ com_mutex' = Free
                /\ Finish(t, "IndexError")
                /\ UNCHANGED wire
    /\ UNCHANGED << orientation, last_bitmap_time, now, lcd_serial, open_handles,
                    byteorder, display_width, display_height, call, snap, ncalls >>

\* lines 174-179: the last partial line, the completion timestamp, the lock
DisplayPILImage_174(t) ==
    /\ pc[t] = "dp174"
    /\ wire' = IF Len(loc[t].line) > 0 THEN Written(t, "data", loc[t].line) ELSE wire
    /\ last_bitmap_time' = now
    /\ com_mutex' = Free
    /\ Finish(t, "ok")
    /\ UNCHANGED << orientation, now, lcd_serial, open_handles, byteorder, display_width, display_height, call, snap, ncalls >>

(* --------------------------- specifications --------------------------- *)
\* the steps of caller t, other than the start of a call, in the operations
\* the concurrent specification runs: Reset, Clear, ScreenOn, SetOrientation
\* and DisplayPILImage
Step(t) ==
    \/ SendCommand_43(t) \/ SendCommand_45(t) \/ SendCommand_47(t) \/ WithExit(t)
    \/ Reset_65(t) \/ Reset_71(t) \/ Reset_72(t)
    \/ SetOrientation_104(t) \/ SetOrientation_105(t) \/ SetOrientation_106(t)
    \/ SetOrientation_123(t) \/ SetOrientation_124(t)
    \/ Clear_75(t) \/ Clear_76(t) \/ Clear_77(t) \/ Clear_78(t)
    \/ ScreenOn_85(t)
    \/ DisplayPILImage_140(t) \/ DisplayPILImage_142(t) \/ DisplayPILImage_145(t)
    \/ DisplayPILImage_146(t) \/ DisplayPILImage_153(t) \/ DisplayPILImage_161(t)
    \/ DisplayPILImage_174(t)

\* the steps of ScreenOff and SetBrightness, which lock as ScreenOn does
StepMore(t) ==
    \/ ScreenOff_81(t)
    \/ SetBrightness_89(t) \/ SetBrightness_96(t)

\* the calls of the concurrent specification
MainCalls ==
    {SimpleCall(n) : n \in {"Reset", "Clear", "ScreenOn"}}
        \cup {OrientationCall(LANDSCAPE),
              BitmapCall(MkImage(DisplayWidth, MainImageHeight, 0), 0, 0, 0, 0)}

\* the calls of the sequential specification
SeqCalls ==
    MainCalls \cup {SimpleCall("ScreenOff"), BrightnessCall(-1), BrightnessCall(50),
                    BrightnessCall(101), OrientationCall(PORTRAIT),
                    OrientationCall(REVERSE_PORTRAIT), OrientationCall(REVERSE_LANDSCAPE)}

Next ==
    \/ \E t \in Callers : StartCall(t, MainCalls, MaxCalls)
    \/ \E t \in Callers : Step(t)
    \/ Tick

Spec == Init /\ [][Next]_vars


\* one caller, issuing its calls one after the other
NextSeq ==
    \/ StartCall("c1", SeqCalls, MaxCalls)
    \/ Step("c1")
    \/ StepMore("c1")
    \/ Tick

SpecSeq == InitSeq /\ [][NextSeq]_vars

(* ------------------------ claims: Clear, timing ----------------------- *)
\* the writes of the current (or last) call of caller t, in order
FramesOf(t) == SelectSeq(wire, LAMBDA e : e.who = t /\ e.n = ncalls[t])

\* a step that writes a frame of the given kinds to the transport
WritesFrame(kinds) == Len(wire') = Len(wire) + 1 /\ Last(wire').kind \in kinds

\* C1: a finished Clear() has written exactly [SetOrientation(PORTRAIT), Clear,
\* SetOrientation(o)] for the orientation o active before the call, and the
\* recorded orientation is o again.
C1_ClearRestoresOrientation ==
    \A t \in Callers :
        (pc[t] = "done" /\ call[t].name = "Clear") =>
            LET f == FramesOf(t)
                o == snap[t].orientation
            IN  /\ Len(f) = 3
                /\ f[1].bytes = SetOrientationBytes(PORTRAIT, get_width(PORTRAIT), get_height(PORTRAIT))
                /\ f[2].bytes = SendCommandBytes(CLEAR, 0, 0, 0, 0)
                /\ f[3].bytes = SetOrientationBytes(o, get_width(o), get_height(o))
                /\ orientation = o

\* C2: the DISPLAY_BITMAP header is written no earlier than inter_bitmap_delay
\* after the completion timestamp of the previous transfer.
C2_HeaderAfterSettle ==
    [][(WritesFrame({"cmd"}) /\ Last(wire').bytes[6] = DISPLAY_BITMAP)
          => now >= last_bitmap_time + inter_bitmap_delay]_vars

\* a second transfer has slept out the settle time and just written its header
C2_Witness ==
    \E t \in Callers :
        /\ pc[t] = "dp159"
        /\ last_bitmap_time >= inter_bitmap_delay
        /\ loc[t].wakeAt = last_bitmap_time + inter_bitmap_delay
        /\ Len(wire) >= 3
        /\ Last(wire).bytes[6] = DISPLAY_BITMAP
        /\ wire[Len(wire) - 1].kind = "data"

\* C3: after a bitmap transfer, the next command frame of any kind is written
\* no earlier than last_bitmap_time + inter_bitmap_delay.
C3_AnyFrameAfterSettle ==
    [][WritesFrame({"cmd", "orient"}) => now >= last_bitmap_time + inter_bitmap_delay]_vars

\* C4: the frames of one Clear() call are contiguous on the wire.
C4_ClearContiguous ==
    \A i, j, k \in 1..Len(wire) :
        (/\ i < j /\ j < k
         /\ wire[i].who = wire[k].who /\ wire[i].n = wire[k].n
         /\ call[wire[i].who].name = "Clear" /\ wire[i].n = ncalls[wire[i].who])
            => (wire[j].who = wire[i].who /\ wire[j].n = wire[i].n)

\* C5: between the DISPLAY_BITMAP header of a transfer and each of its payload
\* chunks, every write on the transport belongs to that same transfer.
C5_BitmapContiguous ==
    \A i, j, k \in 1..Len(wire) :
        (/\ i < j /\ j < k
         /\ wire[i].kind = "cmd" /\ wire[i].bytes[6] = DISPLAY_BITMAP
         /\ wire[k].kind = "data"
         /\ wire[i].who = wire[k].who /\ wire[i].n = wire[k].n)
            => (wire[j].who = wire[i].who /\ wire[j].n = wire[i].n)

\* a transfer has written its header and holds the lock while the other caller
\* stands at the lock with an orientation frame to write
C5_Witness ==
    \E t, u \in Callers :
        /\ t # u
        /\ com_mutex = t
        /\ pc[t] = "dp174"
        /\ Len(loc[t].line) > 0
        /\ Last(wire).who = t
        /\ pc[u] = "so123"


(* -------------------- specification: frame encoder -------------------- *)
\* coordinates with one bit set, none, all, and the first one out of range
CoordSamples ==
    {2 ^ k : k \in 0..(CoordBits - 1)} \cup {0, 2 ^ CoordBits - 1, 2 ^ CoordBits}

InCoordRange(v) == 0 <= v /\ v < 2 ^ CoordBits

\* SendCommand driven on its own, once, with sampled arguments
NextPack ==
    \/ StartSendCommand("c1", Command, CoordSamples)
    \/ SendCommand_43("c1")
    \/ SendCommand_47("c1")

SpecPack == InitAnyHost /\ [][NextPack]_vars

\* the decoding of a 6-byte frame
DecodeFrame(b) ==
    << b[1] * 4 + b[2] \div 64,
       (b[2] % 64) * 16 + b[3] \div 16,
       (b[3] % 16) * 64 + b[4] \div 4,
       (b[4] % 4) * 256 + b[5],
       b[6] >>

\* C6: for coordinates in [0,1023] and every opcode, SendCommand writes six
\* bytes in 0..255 that decode to (x, y, ex, ey, c).
C6_RoundTrip ==
    \A t \in Callers :
        (/\ pc[t] = "done" /\ call[t].name = "SendCommand"
         /\ \A v \in {call[t].x, call[t].y, call[t].ex, call[t].ey} : InCoordRange(v))
            => /\ result[t] = "ok"
               /\ Len(FramesOf(t)) = 1
               /\ LET b == FramesOf(t)[1].bytes
                  IN  /\ Len(b) = 6
                      /\ \A i \in 1..6 : b[i] \in 0..255
                      /\ DecodeFrame(b) = << call[t].x, call[t].y, call[t].ex, call[t].ey,
                                             call[t].cmd >>

\* a frame with distinct coordinates that reach the top bit has been written
C6_Witness ==
    \E t \in Callers :
        /\ pc[t] = "done" /\ call[t].name = "SendCommand" /\ result[t] = "ok"
        /\ call[t].x = 2 ^ CoordBits - 1 /\ call[t].y = 2 ^ (CoordBits - 1)
        /\ call[t].ex = 1 /\ call[t].ey = 2 ^ CoordBits - 1
        /\ call[t].cmd = DISPLAY_BITMAP

(* ----------------------- specification: brightness -------------------- *)
BrightnessLevels == (0 - MaxLevelSlack)..(100 + MaxLevelSlack)

BrightnessCalls == {BrightnessCall(level) : level \in BrightnessLevels}

NextBrightness ==
    \/ StartCall("c1", BrightnessCalls, 1)
    \/ SetBrightness_89("c1")
    \/ SetBrightness_96("c1")
    \/ SendCommand_43("c1")
    \/ SendCommand_47("c1")
    \/ WithExit("c1")

SpecBrightness == InitAnyHost /\ [][NextBrightness]_vars

\* a SetBrightness call of caller t with a level in [0,100] has returned
BrightnessDone(t) ==
    /\ pc[t] = "done" /\ call[t].name = "SetBrightness"
    /\ 0 <= call[t].level /\ call[t].level <= 100

\* the coordinates and opcode that the one frame of t's call carries
SentFrame(t) == DecodeFrame(FramesOf(t)[1].bytes)

\* C7 as stated: the x slot holds 255 - round(level/100 * 255), where round is
\* the nearest integer (either neighbour at a tie), and y = ex = ey = 0.
C7_WireIsRounded ==
    \A t \in Callers :
        BrightnessDone(t) =>
            /\ Len(FramesOf(t)) = 1
            /\ LET f == SentFrame(t)
                   r == 255 - f[1]
               IN  /\ 100 * r - 255 * call[t].level <= 50
                   /\ 255 * call[t].level - 100 * r <= 50
                   /\ f[2] = 0 /\ f[3] = 0 /\ f[4] = 0 /\ f[5] = SET_BRIGHTNESS

\* C7 amended: the x slot holds 255 - ceil(level * 255 / 100), the truncation
\* of 255 - level/100*255, and y = ex = ey = 0.
C7_WireIsTruncated ==
    \A t \in Callers :
        BrightnessDone(t) =>
            /\ result[t] = "ok"
            /\ Len(FramesOf(t)) = 1
            /\ LET f == SentFrame(t)
                   r == 255 - f[1]
               IN  /\ 100 * r >= 255 * call[t].level
                   /\ 100 * (r - 1) < 255 * call[t].level
                   /\ f[2] = 0 /\ f[3] = 0 /\ f[4] = 0 /\ f[5] = SET_BRIGHTNESS

\* a level whose scaled value has a fraction below one half has been sent
C7_Witness ==
    \E t \in Callers :
        BrightnessDone(t) /\ call[t].level = 2 /\ result[t] = "ok" /\ SentFrame(t)[1] = 249

\* the wire value of a finished SetBrightness(level) of caller t
WireValue(t) == SentFrame(t)[1]

\* C8 as stated: levels 0, 100 and 50 encode 255, 0 and 128.
C8_ExamplesAsStated ==
    \A t \in Callers :
        BrightnessDone(t) =>
            /\ (call[t].level = 0 => WireValue(t) = 255)
            /\ (call[t].level = 100 => WireValue(t) = 0)
            /\ (call[t].level = 50 => WireValue(t) = 128)

\* C8 amended: levels 0, 100 and 50 encode 255, 0 and 127.
C8_Examples ==
    \A t \in Callers :
        BrightnessDone(t) =>
            /\ (call[t].level = 0 => WireValue(t) = 255)
            /\ (call[t].level = 100 => WireValue(t) = 0)
            /\ (call[t].level = 50 => WireValue(t) = 127)

\* SetBrightness(50) has returned
C8_Witness ==
    \E t \in Callers : BrightnessDone(t) /\ call[t].level = 50 /\ result[t] = "ok"

\* C9: SetBrightness with a level outside [0,100] raises before any I/O: it
\* writes nothing, never holds the lock and leaves the driver state as it was.
C9_BadLevelRejected ==
    \A t \in Callers :
        (call[t].name = "SetBrightness" /\ (call[t].level < 0 \/ call[t].level > 100)) =>
            /\ FramesOf(t) = << >>
            /\ Len(wire) = snap[t].wirelen
            /\ com_mutex # t
            /\ orientation = snap[t].orientation
            /\ last_bitmap_time = snap[t].last_bitmap_time
            /\ lcd_serial = snap[t].lcd_serial
            /\ (pc[t] = "done" => result[t] = "AssertionError" /\ com_mutex = Free)

\* SetBrightness(-1) has been rejected after a bitmap transfer and a change
\* of orientation gave the driver a state to keep
C9_Witness ==
    \E t \in Callers :
        /\ pc[t] = "done" /\ call[t].name = "SetBrightness" /\ call[t].level = -1
        /\ result[t] = "AssertionError"
        /\ Len(wire) > 0


(* --------------------- specification: bitmap transfer ----------------- *)
\* sizes and origins around the display's two dimensions
EdgeValues ==
    {-1, 0, 1, DisplayWidth + 1, MainImageHeight, DisplayHeight, DisplayHeight + 1}

BitmapImages ==
    {MkImage(iw, ih, 0) : iw \in 0..(DisplayWidth + 1), ih \in {0, 1, DisplayHeight, DisplayHeight + 1}}

BitmapCalls ==
    {BitmapCall(image, x, y, iw, ih) :
        image \in BitmapImages, x \in EdgeValues, y \in EdgeValues,
        iw \in EdgeValues, ih \in EdgeValues}

\* the driver is in any orientation SetOrientation can have left it in
InitBitmap == InitWith(Orientation, ByteOrders, SmallDisplay)

\* one DisplayPILImage call by one caller
NextBitmap ==
    \/ StartCall("c1", BitmapCalls, 1)
    \/ DisplayPILImage_140("c1") \/ DisplayPILImage_142("c1") \/ DisplayPILImage_145("c1")
    \/ DisplayPILImage_146("c1") \/ DisplayPILImage_153("c1") \/ DisplayPILImage_161("c1")
    \/ DisplayPILImage_174("c1")
    \/ SendCommand_43("c1")
    \/ SendCommand_47("c1")

SpecBitmap == InitBitmap /\ [][NextBitmap]_vars

\* C10 as stated: DisplayPILImage with image_width = 0 or image_height = 0
\* fails and writes nothing, for every image and origin.
C10_ZeroSizeRejected ==
    \A t \in Callers :
        (/\ call[t].name = "DisplayPILImage"
         /\ (call[t].image_width = 0 \/ call[t].image_height = 0))
            => /\ FramesOf(t) = << >>
               /\ (pc[t] = "done" => result[t] # "ok")

\* C10 amended: a width or height of 0 stands for the image's own size, and
\* DisplayPILImage raises and writes nothing when that size is 0 as well.
C10_EmptyImageRejected ==
    \A t \in Callers :
        (/\ call[t].name = "DisplayPILImage"
         /\ \/ (call[t].image_width = 0 /\ call[t].image.size[1] = 0)
            \/ (call[t].image_height = 0 /\ call[t].image.size[2] = 0))
            => /\ FramesOf(t) = << >>
               /\ com_mutex # t
               /\ (pc[t] = "done" => result[t] = "AssertionError")

\* an image without columns, drawn at a valid origin, has been rejected
C10_Witness ==
    \E t \in Callers :
        /\ pc[t] = "done" /\ call[t].name = "DisplayPILImage"
        /\ call[t].image_width = 0 /\ call[t].image.size = << 0, DisplayHeight >>
        /\ call[t].image_height = 0
        /\ call[t].x = 1 /\ call[t].y = 0
        /\ result[t] = "AssertionError"


(* ------------------- C11: clamping to the display --------------------- *)
\* the width and height a DisplayPILImage call c is to transfer on a display
\* of W x H: the display's where the image exceeds it, else the argument, or
\* the image's own where the argument is 0
EffectiveWidth(c, W) ==
    IF c.image.size[1] > W THEN W
    ELSE IF c.image_width = 0 THEN c.image.size[1] ELSE c.image_width
EffectiveHeight(c, H) ==
    IF c.image.size[2] > H THEN H
    ELSE IF c.image_height = 0 THEN c.image.size[2] ELSE c.image_height

\* C11: for an image larger than the display, DisplayPILImage clamps the
\* effective width and height to the display's, each dimension on its own and
\* only the one that exceeds; the call is not rejected for it (its header
\* carries the clamped region); and no pixel is read at a column or row at or
\* beyond the clamped size.
C11_ClampedToDisplay ==
    \A t \in Callers :
        call[t].name = "DisplayPILImage" =>
            LET c == call[t]
                W == get_width(orientation)
                H == get_height(orientation)
                wide == c.image.size[1] > W
                tall == c.image.size[2] > H
                ew == EffectiveWidth(c, W)
                eh == EffectiveHeight(c, H)
                sized == pc[t] \notin {"idle", "dp140", "dp142", "done"}
            IN  /\ (sized /\ wide) => loc[t].image_width = W
                /\ (sized /\ tall) => loc[t].image_height = H
                /\ (sized /\ ~wide) => loc[t].image_width = ew
                /\ (sized /\ ~tall) => loc[t].image_height = eh
                /\ (pc[t] = "dp159" /\ wide) => loc[t].w < W
                /\ (pc[t] = "dp159" /\ tall) => loc[t].h < H
                /\ (/\ pc[t] = "done" /\ (wide \/ tall)
                    /\ 0 <= c.x /\ c.x <= W /\ 0 <= c.y /\ c.y <= H
                    /\ ew > 0 /\ eh > 0)
                       => /\ result[t] \in {"ok", "IndexError"}
                          /\ (wide /\ tall) => result[t] = "ok"
                          /\ Len(FramesOf(t)) >= 1
                          /\ DecodeFrame(FramesOf(t)[1].bytes)
                                = << c.x, c.y, c.x + ew - 1, c.y + eh - 1, DISPLAY_BITMAP >>

\* an image wider than the display, but not taller, has been transferred in
\* portrait: one display width of one row
C11_Witness ==
    \E t \in Callers :
        /\ pc[t] = "done" /\ call[t].name = "DisplayPILImage" /\ result[t] = "ok"
        /\ orientation = PORTRAIT
        /\ call[t].image.size = << DisplayWidth + 1, 1 >>
        /\ call[t].image_width = 0 /\ call[t].image_height = 0
        /\ Len(FramesOf(t)) = 2
        /\ Len(FramesOf(t)[2].bytes) = 2 * DisplayWidth


(* --------------------- C12: the pixel conversion ---------------------- *)
\* channel values with one bit set, none, the low three, the high five, all
ChannelSamples == {Shl(1, k) : k \in 0..7} \cup {0, 7, 248, 255}

\* DisplayPILImage of a single pixel of a sampled colour
PixelCalls ==
    {BitmapCall(TintedImage(1, 1, << r, g, b >>), 0, 0, 0, 0) :
        r \in ChannelSamples, g \in ChannelSamples, b \in ChannelSamples}

NextPixel ==
    \/ StartCall("c1", PixelCalls, 1)
    \/ DisplayPILImage_140("c1") \/ DisplayPILImage_142("c1") \/ DisplayPILImage_145("c1")
    \/ DisplayPILImage_146("c1") \/ DisplayPILImage_153("c1") \/ DisplayPILImage_161("c1")
    \/ DisplayPILImage_174("c1")
    \/ SendCommand_43("c1")
    \/ SendCommand_47("c1")

SpecPixel == InitAnyHost /\ [][NextPixel]_vars

\* the 16-bit value that two payload bytes hold on a host of the given order
UnpackH(b, order) == IF order = "little" THEN b[1] + 256 * b[2] ELSE 256 * b[1] + b[2]

\* the value streamed for the one pixel of t's call
StreamedValue(t) == UnpackH(FramesOf(t)[2].bytes, byteorder)

\* C12: the value streamed for a pixel (R, G, B) is
\* ((R >> 3) << 11) | ((G >> 2) << 5) | (B >> 3): it fits 16 bits, its fields
\* of 5, 6 and 5 bits do not overlap, and pure red, green, blue and white give
\* 0xF800, 0x07E0, 0x001F and 0xFFFF.
C12_Rgb565 ==
    \A t \in Callers :
        (pc[t] = "done" /\ call[t].name = "DisplayPILImage" /\ call[t].image.tint # << >>) =>
            LET p == call[t].image.tint
                v == StreamedValue(t)
            IN  /\ result[t] = "ok"
                /\ Len(FramesOf(t)) = 2 /\ Len(FramesOf(t)[2].bytes) = 2
                /\ v \in 0..65535
                /\ v \div 2048 = p[1] \div 8
                /\ (v \div 32) % 64 = p[2] \div 4
                /\ v % 32 = p[3] \div 8
                /\ (p = << 255, 0, 0 >> => v = 63488)
                /\ (p = << 0, 255, 0 >> => v = 2016)
                /\ (p = << 0, 0, 255 >> => v = 31)
                /\ (p = << 255, 255, 255 >> => v = 65535)

\* a pure green pixel has been streamed by a little-endian host
C12_Witness ==
    \E t \in Callers :
        /\ pc[t] = "done" /\ call[t].name = "DisplayPILImage" /\ result[t] = "ok"
        /\ call[t].image.tint = << 0, 255, 0 >>
        /\ byteorder = "little"
        /\ Len(FramesOf(t)) = 2
        /\ FramesOf(t)[2].bytes = << 224, 7 >>


(* ------------------- C13: Reset excludes the others ------------------- *)
\* caller t is in Reset(), between the write of the RESET frame and openSerial()
InResetWindow(t) == call[t].name = "Reset" /\ pc[t] \in {"rs71", "rs72"}

\* C13: while a Reset() is between the write of its RESET frame and the
\* re-acquisition of the transport, it holds the lock and nothing has been
\* written to the transport after its RESET frame: the other callers' commands
\* are held back, none interleaves.
C13_ResetExclusive ==
    \A t \in Callers :
        InResetWindow(t) =>
            /\ com_mutex = t
            /\ Len(wire) > 0
            /\ Last(wire).who = t /\ Last(wire).n = ncalls[t]
            /\ Last(wire).bytes = SendCommandBytes(RESET, 0, 0, 0, 0)
            /\ \A u \in Callers \ {t} : ~InResetWindow(u)

\* a Reset() sleeps before openSerial() while the other caller, in
\* SetOrientation, waits for the lock
C13_Witness ==
    \E t \in Callers : \E u \in Callers \ {t} :
        /\ pc[t] = "rs72" /\ call[t].name = "Reset"
        /\ pc[u] = "so123" /\ call[u].name = "SetOrientation"
        /\ now > snap[t].last_bitmap_time + inter_bitmap_delay


(* ------------------ C14: the region of the header --------------------- *)
\* C14: for every DisplayPILImage call that passes validation, the region
\* (x0, y0, x1, y1) of its DISPLAY_BITMAP header satisfies
\* 0 <= x0 <= x1 <= display width - 1 and 0 <= y0 <= y1 <= display height - 1.
C14_RegionInsideDisplay ==
    \A t \in Callers :
        (call[t].name = "DisplayPILImage" /\ pc[t] \in {"dp159", "dp174"}) =>
            /\ Len(FramesOf(t)) >= 1
            /\ FramesOf(t)[1].bytes =
                   SendCommandBytes(DISPLAY_BITMAP, loc[t].x, loc[t].y, loc[t].ex, loc[t].ey)
            /\ 0 <= loc[t].x /\ loc[t].x <= loc[t].ex
            /\ loc[t].ex <= get_width(orientation) - 1
            /\ 0 <= loc[t].y /\ loc[t].y <= loc[t].ey
            /\ loc[t].ey <= get_height(orientation) - 1

(* ------------------ C15: an origin off the display -------------------- *)
\* C15: a DisplayPILImage call whose origin is outside
\* [0, display width] x [0, display height] (x or y negative, x beyond the
\* width, y beyond the height) is rejected before any transport I/O: it fails,
\* nothing of a header is written and last_bitmap_time stays as it was.
C15_BadOriginRejected ==
    \A t \in Callers :
        (/\ call[t].name = "DisplayPILImage"
         /\ \/ call[t].x < 0 \/ call[t].x > get_width(orientation)
            \/ call[t].y < 0 \/ call[t].y > get_height(orientation))
            => /\ FramesOf(t) = << >>
               /\ last_bitmap_time = snap[t].last_bitmap_time
               /\ (pc[t] = "done" => result[t] # "ok")


(* ------------------ C16: the orientation frame ------------------------ *)
\* the logical width and height of the display in orientation o
LogicalWidth(o) == IF o \in {LANDSCAPE, REVERSE_LANDSCAPE} THEN display_height ELSE display_width
LogicalHeight(o) == IF o \in {LANDSCAPE, REVERSE_LANDSCAPE} THEN display_width ELSE display_height

\* C16: SetOrientation(o) writes exactly one frame of 11 bytes: b0..b4 = 0,
\* b5 = 121, b6 = o + 100, b7 = width >> 8, b8 = width & 0xFF,
\* b9 = height >> 8, b10 = height & 0xFF, with the logical width and height
\* of the display in the new orientation o; afterwards the recorded
\* orientation is o.
C16_OrientationFrame ==
    \A t \in Callers :
        (pc[t] = "done" /\ call[t].name = "SetOrientation") =>
            LET o == call[t].orientation
                f == FramesOf(t)
            IN  /\ result[t] = "ok"
                /\ orientation = o
                /\ Len(f) = 1
                /\ f[1].kind = "orient"
                /\ f[1].bytes = << 0, 0, 0, 0, 0, 121, o + 100,
                                   LogicalWidth(o) \div 256, LogicalWidth(o) % 256,
                                   LogicalHeight(o) \div 256, LogicalHeight(o) % 256 >>

\* SetOrientation(LANDSCAPE) has returned on the default display of 320 x 480
C16_Witness ==
    \E t \in Callers :
        /\ pc[t] = "done" /\ call[t].name = "SetOrientation"
        /\ call[t].orientation = LANDSCAPE
        /\ display_width = display_width_default
        /\ snap[t].orientation = PORTRAIT
        /\ Len(FramesOf(t)) = 1
        /\ FramesOf(t)[1].bytes = << 0, 0, 0, 0, 0, 121, 102, 1, 224, 1, 64 >>


(* ------------------- C17: the payload writes -------------------------- *)
\* the payload writes of t's call, in order
PayloadOf(t) == SelectSeq(FramesOf(t), LAMBDA e : e.kind = "data")

\* the bytes of a sequence of writes, one after the other
RECURSIVE Concat(_)
Concat(frames) ==
    IF frames = << >> THEN << >> ELSE frames[1].bytes \o Concat(Tail(frames))

\* the pixels (w, h) of the top-left ew x eh of an image, row by row, each
\* converted and packed
RowMajor(image, ew, eh, order) ==
    [i \in 1..(2 * ew * eh) |->
        LET k == (i - 1) \div 2
        IN  PackH(Rgb565(Pix(image, k % ew, k \div ew)), order)[((i - 1) % 2) + 1]]

C18_CloseBeforeReopen ==
    /\ Cardinality(open_handles) <= 1
    /\ \A t \in Callers :
           (pc[t] = "done" /\ call[t].name = "Reset") => open_handles = {lcd_serial}


(* --------------- C19: concurrent SetOrientation calls ----------------- *)
\* SetOrientation with every orientation
OrientationCalls == {OrientationCall(o) : o \in Orientation}

\* two callers, each calling SetOrientation
NextOrient ==
    \/ \E t \in Callers : StartCall(t, OrientationCalls, MaxCalls)
    \/ \E t \in Callers :
           \/ SetOrientation_104(t) \/ SetOrientation_105(t) \/ SetOrientation_106(t)
           \/ SetOrientation_123(t) \/ SetOrientation_124(t)

SpecOrient == Init /\ [][NextOrient]_vars

\* no operation is in flight
Quiescent == \A t \in Callers : pc[t] \in {"idle", "done"}

\* the orientation frames written so far, in order
OrientFrames == SelectSeq(wire, LAMBDA e : e.kind = "orient")

\* the orientation a frame carries is the one the driver has recorded
FrameMatchesRecord(e) == e.bytes[7] - 100 = orientation

\* the width and height a frame carries are those of the orientation it carries
FrameSelfConsistent(e) ==
    LET o == e.bytes[7] - 100
    IN  /\ e.bytes[8] * 256 + e.bytes[9] = LogicalWidth(o)
        /\ e.bytes[10] * 256 + e.bytes[11] = LogicalHeight(o)

\* C19: with two callers calling SetOrientation concurrently, whenever no
\* operation is in flight the recorded orientation is the one carried by the
\* last orientation frame written, and every orientation frame carries the
\* width and height of the orientation it carries.
C19_OrientationConsistent ==
    /\ (Quiescent /\ Len(OrientFrames) > 0) => FrameMatchesRecord(Last(OrientFrames))
    /\ \A i \in 1..Len(OrientFrames) : FrameSelfConsistent(OrientFrames[i])


(* ------------------ C20: reads inside the image ----------------------- *)
\* C20: in every DisplayPILImage call that passes validation, each pixel
\* pix[w, h] the loop is about to read lies inside the source image, and the
\* call does not end in an IndexError, whatever the image's size, the
\* image_width and image_height arguments and the display's dimensions.
C20_ReadsInsideImage ==
    \A t \in Callers :
        call[t].name = "DisplayPILImage" =>
            /\ pc[t] = "dp159" => InImage(call[t].image, loc[t].w, loc[t].h)
            /\ pc[t] = "done" => result[t] # "IndexError"

====
